---- MODULE Spec2Model ----
(***************************************************************************)
(* PirateNode (lib/PirateNode.js): the supervisor of one elastic search   *)
(* daemon and the orchestrator that regenerates the torrents index.       *)
(*                                                                         *)
(* Text is modelled as a sequence of tokens; a stdout chunk is such a     *)
(* sequence.  The remote cluster is modelled by what the requests of      *)
(* this file read and change: whether the torrents index exists and       *)
(* whether the JDBC river (the import connector) exists.                  *)
(***************************************************************************)
EXTENDS Integers, Sequences, FiniteSets, TLC

(* ------------------------------ bounds -------------------------------- *)

MaxStarts == 1
MaxStdout == 2
MaxStderr == 2
MaxChunkLen == 3
MaxListeners == 1
MaxInitCalls == 1
MaxShutdowns == 1
MaxSetups == 2
MaxSearches == 2

(* ----------------------------- constants ------------------------------ *)

\* var NODE_NAME = "pirate-" + Math.ceil(Math.random() * Date.now())
NODE_NAME == <<"pirate-1">>

\* var START_TRIGGER = "[" + NODE_NAME + "] started"
START_TRIGGER == <<"[">> \o NODE_NAME \o <<"] started">>

\* var CLUSTER_NAME = "piratesbey"
CLUSTER_NAME == "piratesbey"

\* var INDEX_NAME = "torrents"
INDEX_NAME == "torrents"

\* setTimeout(..., 2000) in triggerRiver
SETTLE_DELAY == 2000

\* the tokens a chunk of daemon output is made of
Tokens == {"[", "pirate-1", "] started"}

RECURSIVE SeqsUpTo(_, _)
SeqsUpTo(S, n) ==
  IF n = 0 THEN {<<>>}
  ELSE LET shorter == SeqsUpTo(S, n - 1)
       IN shorter \cup {Append(s, t) : s \in {x \in shorter : Len(x) = n - 1}, t \in S}

StdoutChunks == SeqsUpTo(Tokens, MaxChunkLen) \ {<<>>}

StderrChunks == {"warn", "fatal"}

\* an object with no keys
EmptyMap == [k \in {} |-> ""]

\* what an elasticsearch.json written earlier may hold under each top-level key
OldValues(k) ==
  CASE k = "cluster" -> {[name |-> "oldcluster"],
                         [name |-> "oldcluster", routing |-> "even"]}
    [] k = "node" -> {[name |-> "pirate-0", master |-> "false"],
                      [name |-> "pirate-0", master |-> "false", data |-> "true"]}
    [] k = "network" -> {[bind_host |-> "0.0.0.0", publish_host |-> "0.0.0.0"],
                         [bind_host |-> "0.0.0.0", publish_host |-> "0.0.0.0",
                          tcp |-> "nodelay"]}
    [] OTHER -> {[data |-> "/var/es"]}

TopKeys == {"cluster", "node", "network", "path"}

ConfigMaps ==
  UNION {{f \in [D -> UNION {OldValues(k) : k \in D}] :
            \A k \in D : f[k] \in OldValues(k)} : D \in SUBSET TopKeys}

\* the config file: absent, holding an object, or holding text that is no JSON
NoFile == [kind |-> "none", value |-> EmptyMap]

GarbageFile == [kind |-> "garbage", value |-> EmptyMap]

ConfigFiles ==
  {NoFile, GarbageFile} \cup {[kind |-> "json", value |-> m] : m \in ConfigMaps}

\* config.search of the constructor's config argument
RuntimeConfigs ==
  {[search |-> [host |-> h, master |-> m]] :
     h \in {"localhost", "10.0.0.5"}, m \in {"true", "false"}}

\* the query strings a caller searches for
Queries == {"pirate bay", "linux iso"}

\* what an options object may hold under each key before a search
OptionValue(k) ==
  CASE k = "size" -> "10"
    [] k = "q" -> "stale"
    [] OTHER -> "movies"

\* the options objects a caller builds
OptionObjects ==
  {[k \in D |-> OptionValue(k)] : D \in SUBSET {"size", "q", "index"}}

(* ------------------------------- state -------------------------------- *)

VARIABLES
  crashed,          \* the supervising process died of an uncaught exception
  javaHomePending,  \* start() calls whose findJavaHome callback has not run
  daemons,          \* number of daemon processes spawned so far
  client,           \* var client: 0 is undefined, n is the n-th Client built
  clientsCreated,   \* number of elasticsearch.Client objects constructed
  tickQueue,        \* callbacks queued by process.nextTick, oldest first
  readyLog,         \* one record per run of the start callback (onReady)
  stdoutCount,      \* stdout 'data' events handled
  stdoutLast,       \* the last stdout chunk handled: its daemon, whether it
                    \* holds the marker, and how much of the marker it ends in
  splitMarker,      \* the last two chunks of one daemon hold the marker only
                    \* across their boundary
  stderrLog,        \* the stderr chunks handled, in order
  errorListeners,   \* listeners registered with node.on("error", ...)
  initCalls,        \* calls of the public initialize()
  errorEvents,      \* payloads of the "error" events delivered, in order
  shutdownCalls,    \* one record per shutdown(callback) call
  indexPresent,     \* remote: the torrents index exists
  riverPresent,     \* remote: the river _meta document exists
  riverCreatedBy,   \* remote: the setupIndex call whose PUT created it, or 0
  inv,              \* one record per setupIndex(callback) call that got going
  setupThrown,      \* setupIndex calls that threw before issuing anything
  config,           \* the config argument of the constructor (config.search)
  configFile,       \* <rootDir>/config/elasticsearch.json on disk
  startLog,         \* one record per run of the findJavaHome callback
  options,          \* the options object the caller passes to the searches
  requests          \* one record per search or fullSearch call

supervisorVars ==
  <<crashed, javaHomePending, daemons, client, clientsCreated, tickQueue,
    readyLog, stdoutCount, stdoutLast, splitMarker, stderrLog,
    errorListeners, errorEvents, shutdownCalls,
    initCalls>>

reindexVars == <<indexPresent, riverPresent, riverCreatedBy, inv, setupThrown>>

configVars == <<config, configFile, startLog>>

searchVars == <<options, requests>>

vars == <<supervisorVars, reindexVars, configVars, searchVars>>

NoChunk == [proc |-> 0, whole |-> FALSE, open |-> 0]

\* the state of a new PirateNode, whatever the config argument and the disk
InitProgram ==
  /\ crashed = FALSE
  /\ javaHomePending = <<>>
  /\ daemons = 0
  /\ client = 0
  /\ clientsCreated = 0
  /\ tickQueue = <<>>
  /\ readyLog = <<>>
  /\ stdoutCount = 0
  /\ stdoutLast = NoChunk
  /\ splitMarker = FALSE
  /\ stderrLog = <<>>
  /\ errorListeners = 0
  /\ errorEvents = <<>>
  /\ shutdownCalls = <<>>
  /\ initCalls = 0
  /\ indexPresent \in BOOLEAN
  /\ riverPresent \in BOOLEAN
  /\ riverCreatedBy = 0
  /\ inv = <<>>
  /\ setupThrown = 0
  /\ startLog = <<>>
  /\ options = EmptyMap
  /\ requests = <<>>

\* a new PirateNode on a fresh installation: no elasticsearch.json yet
Init ==
  /\ InitProgram
  /\ config = [search |-> [host |-> "localhost", master |-> "true"]]
  /\ configFile = NoFile

\* a new PirateNode with any config argument over any elasticsearch.json
InitConfig ==
  /\ InitProgram
  /\ config \in RuntimeConfigs
  /\ configFile \in ConfigFiles

(* --------------------------- pure helpers ----------------------------- *)

\* String.prototype.indexOf: the 0-based position of the first occurrence of
\* t in s at or after position i (1-based here), or -1.
RECURSIVE IndexOfFrom(_, _, _)
IndexOfFrom(s, t, i) ==
  IF i + Len(t) - 1 > Len(s) THEN -1
  ELSE IF SubSeq(s, i, i + Len(t) - 1) = t THEN i - 1
  ELSE IndexOfFrom(s, t, i + 1)

IndexOf(s, t) == IndexOfFrom(s, t, 1)

\* a handler that looks for the last part of the marker only
MarkerSeenSuffixOnly(data) == IndexOf(data, <<"] started">>) > -1

\* data.toString().indexOf(START_TRIGGER) > -1
MarkerSeen(data) == IndexOf(data, START_TRIGGER) > -1

\* initialize(): client = new elasticsearch.Client({...})
initialize == [client |-> clientsCreated + 1, created |-> clientsCreated + 1]

\* a handler that calls the callback itself, inside the 'data' handler
callInline(queue, log, cb, handle) ==
  [queue |-> queue,
   log |-> Append(log, [proc |-> cb, client |-> handle, inHandler |-> TRUE])]

\* process.nextTick(callback): the callback joins the tick queue
nextTick(queue, log, cb, handle) ==
  [queue |-> Append(queue, cb), log |-> log]

\* the marker occurs somewhere in s
HasMarker(s) ==
  \E i \in 1..(Len(s) - Len(START_TRIGGER) + 1) :
    SubSeq(s, i, i + Len(START_TRIGGER) - 1) = START_TRIGGER

\* the length of the longest proper beginning of the marker that s ends in
OpenEnd(s) ==
  LET fits == {k \in 0..(Len(START_TRIGGER) - 1) :
                 /\ k <= Len(s)
                 /\ SubSeq(s, Len(s) - k + 1, Len(s)) = SubSeq(START_TRIGGER, 1, k)}
  IN CHOOSE k \in fits : \A j \in fits : j <= k

(* ----------------------- supervisor: operations ----------------------- *)

\* start(callback): findJavaHome(function (err, javaHome) {...}) is asked
Start ==
  /\ ~crashed
  /\ Len(javaHomePending) + daemons < MaxStarts
  /\ javaHomePending' = Append(javaHomePending, Len(javaHomePending) + daemons + 1)
  /\ UNCHANGED <<crashed, daemons, client, clientsCreated, tickQueue, readyLog,
                 stdoutCount, stdoutLast, splitMarker, stderrLog,
                 errorListeners, errorEvents, shutdownCalls, initCalls>>
  /\ UNCHANGED reindexVars
  /\ UNCHANGED <<configVars, searchVars>>

\* an extend that returns its source and forgets the target
extendSourceOnly(target, source) == source

\* extend(target, source) of the extend package, called without its deep
\* flag: every key of source is set on target, whole
extend(target, source) ==
  [k \in DOMAIN target \cup DOMAIN source |->
     IF k \in DOMAIN source THEN source[k] ELSE target[k]]

\* JSON.parse(fs.readFileSync(configFile).toString()): throws a SyntaxError on
\* text that is no JSON
JSONparse(file) ==
  IF file.kind = "json" THEN [threw |-> FALSE, value |-> file.value]
  ELSE [threw |-> TRUE, value |-> EmptyMap]

\* JSON.stringify(esConfig, null, 2), as written by fs.writeFileSync
JSONstringify(value) == [kind |-> "json", value |-> value]

\* the object prepareConfig extends esConfig with
Overrides(cfg) ==
  [cluster |-> [name |-> CLUSTER_NAME],
   node |-> [name |-> NODE_NAME[1], master |-> cfg.search.master],
   network |-> [bind_host |-> cfg.search.host, publish_host |-> cfg.search.host]]

\* a prepareConfig that starts from an empty object when the file is no JSON
prepareConfigLenient(file, cfg) ==
  LET parsed == JSONparse(file)
  IN [threw |-> FALSE,
      file |-> JSONstringify(extend(parsed.value, Overrides(cfg)))]

\* prepareConfig(): the file on disk after it, or the exception it throws
prepareConfig(file, cfg) ==
  LET parsed == IF file.kind # "none" THEN JSONparse(file)
                ELSE [threw |-> FALSE, value |-> EmptyMap]
  IN IF parsed.threw THEN [threw |-> TRUE, file |-> file]
     ELSE [threw |-> FALSE,
           file |-> JSONstringify(extend(parsed.value, Overrides(cfg)))]

\* the findJavaHome callback: prepareConfig() and then spawn; both 'data'
\* handlers are attached to the new daemon.  An exception of prepareConfig
\* leaves the callback, uncaught.
Spawn ==
  /\ ~crashed
  /\ javaHomePending # <<>>
  /\ javaHomePending' = Tail(javaHomePending)
  /\ LET out == prepareConfig(configFile, config)
     IN /\ configFile' = out.file
        /\ crashed' = out.threw
        /\ daemons' = IF out.threw THEN daemons ELSE daemons + 1
        /\ startLog' = Append(startLog,
             [before |-> configFile, after |-> out.file, cfg |-> config,
              wrote |-> ~out.threw, spawned |-> ~out.threw,
              thrown |-> IF out.threw THEN "SyntaxError" ELSE "none"])
  /\ UNCHANGED <<client, clientsCreated, tickQueue, readyLog,
                 stdoutCount, stdoutLast, splitMarker, stderrLog,
                 errorListeners, errorEvents, shutdownCalls, initCalls>>
  /\ UNCHANGED reindexVars
  /\ UNCHANGED <<config, searchVars>>

\* the public initialize()
Initialize ==
  /\ ~crashed
  /\ initCalls < MaxInitCalls
  /\ initCalls' = initCalls + 1
  /\ client' = initialize.client
  /\ clientsCreated' = initialize.created
  /\ UNCHANGED <<crashed, javaHomePending, daemons, tickQueue, readyLog,
                 stdoutCount, stdoutLast, splitMarker, stderrLog,
                 errorListeners, errorEvents, shutdownCalls>>
  /\ UNCHANGED reindexVars
  /\ UNCHANGED <<configVars, searchVars>>

\* esProcess.stdout.on('data', function (data) {...}) of daemon d
StdoutData(d, data) ==
  /\ ~crashed
  /\ stdoutCount < MaxStdout
  /\ LET hit == MarkerSeen(data)
         built == IF hit THEN initialize
                  ELSE [client |-> client, created |-> clientsCreated]
         sched == IF hit THEN nextTick(tickQueue, readyLog, d, built.client)
                  ELSE [queue |-> tickQueue, log |-> readyLog]
     IN /\ client' = built.client
        /\ clientsCreated' = built.created
        /\ tickQueue' = sched.queue
        /\ readyLog' = sched.log
  /\ stdoutCount' = stdoutCount + 1
  /\ stdoutLast' = [proc |-> d, whole |-> HasMarker(data), open |-> OpenEnd(data)]
  /\ splitMarker' = /\ stdoutLast.proc = d
                    /\ ~stdoutLast.whole
                    /\ ~HasMarker(data)
                    /\ HasMarker(SubSeq(START_TRIGGER, 1, stdoutLast.open) \o data)
  /\ UNCHANGED <<crashed, javaHomePending, daemons, stderrLog,
                 errorListeners, errorEvents, shutdownCalls, initCalls>>
  /\ UNCHANGED reindexVars
  /\ UNCHANGED <<configVars, searchVars>>

\* a callback queued by process.nextTick runs: the start callback of daemon
\* Head(tickQueue)
Tick ==
  /\ ~crashed
  /\ tickQueue # <<>>
  /\ readyLog' = Append(readyLog, [proc |-> Head(tickQueue), client |-> client,
                                   inHandler |-> FALSE])
  /\ tickQueue' = Tail(tickQueue)
  /\ UNCHANGED <<crashed, javaHomePending, daemons, client, clientsCreated,
                 stdoutCount, stdoutLast, splitMarker, stderrLog,
                 errorListeners, errorEvents, shutdownCalls, initCalls>>
  /\ UNCHANGED reindexVars
  /\ UNCHANGED <<configVars, searchVars>>

\* the caller registers a listener: node.on("error", listener)
OnError ==
  /\ ~crashed
  /\ errorListeners < MaxListeners
  /\ errorListeners' = errorListeners + 1
  /\ UNCHANGED <<crashed, javaHomePending, daemons, client, clientsCreated,
                 tickQueue, readyLog, stdoutCount, stdoutLast, splitMarker,
                 stderrLog, errorEvents, shutdownCalls, initCalls>>
  /\ UNCHANGED reindexVars
  /\ UNCHANGED <<configVars, searchVars>>

\* EventEmitter.emit("error", data): with no "error" listener emit throws, and
\* thrown from an I/O callback that is an uncaught exception
emit(events, listeners, data) ==
  IF listeners = 0
  THEN [events |-> events, uncaught |-> TRUE]
  ELSE [events |-> Append(events, data), uncaught |-> FALSE]

\* esProcess.stderr.on('data', function (data) { node.emit("error", data); })
StderrData(d, data) ==
  /\ ~crashed
  /\ Len(stderrLog) < MaxStderr
  /\ stderrLog' = Append(stderrLog, data)
  /\ LET out == emit(errorEvents, errorListeners, data)
     IN /\ errorEvents' = out.events
        /\ crashed' = out.uncaught
  /\ UNCHANGED <<javaHomePending, daemons, client, clientsCreated, tickQueue,
                 readyLog, stdoutCount, stdoutLast, splitMarker, errorListeners,
                 shutdownCalls, initCalls>>
  /\ UNCHANGED reindexVars
  /\ UNCHANGED <<configVars, searchVars>>

\* shutdown(callback): client.nodes.shutdown(callback).  With client undefined
\* the property read client.nodes throws a TypeError.
shutdown(handle) ==
  IF handle = 0
  THEN [client |-> handle, pc |-> "thrown", thrown |-> "TypeError",
        readUndefined |-> TRUE, result |-> "none"]
  ELSE [client |-> handle, pc |-> "pending", thrown |-> "none",
        readUndefined |-> FALSE, result |-> "none"]

Shutdown ==
  /\ ~crashed
  /\ Len(shutdownCalls) < MaxShutdowns
  /\ shutdownCalls' = Append(shutdownCalls, shutdown(client))
  /\ UNCHANGED <<crashed, javaHomePending, daemons, client, clientsCreated,
                 tickQueue, readyLog, stdoutCount, stdoutLast, splitMarker,
                 stderrLog, errorListeners, errorEvents, initCalls>>
  /\ UNCHANGED reindexVars
  /\ UNCHANGED <<configVars, searchVars>>

\* the remote shut-down-node call answers; its outcome goes to the callback
ShutdownReply(i, outcome) ==
  /\ ~crashed
  /\ shutdownCalls[i].pc = "pending"
  /\ shutdownCalls' = [shutdownCalls EXCEPT ![i].pc = "done", ![i].result = outcome]
  /\ UNCHANGED <<crashed, javaHomePending, daemons, client, clientsCreated,
                 tickQueue, readyLog, stdoutCount, stdoutLast, splitMarker,
                 stderrLog, errorListeners, errorEvents, initCalls>>
  /\ UNCHANGED reindexVars
  /\ UNCHANGED <<configVars, searchVars>>

NextSupervisor ==
  \/ Start
  \/ Spawn
  \/ Initialize
  \/ \E d \in 1..daemons, data \in StdoutChunks : StdoutData(d, data)
  \/ Tick
  \/ OnError
  \/ \E d \in 1..daemons, data \in StderrChunks : StderrData(d, data)
  \/ Shutdown
  \/ \E i \in DOMAIN shutdownCalls, outcome \in {"null", "ShutdownError"} :
       ShutdownReply(i, outcome)

SpecSupervisor == Init /\ [][NextSupervisor]_vars

\* the readiness path alone: start, the daemon's stdout, initialize and the
\* deferred start callback
NextReadiness ==
  \/ Start
  \/ Spawn
  \/ Initialize
  \/ \E d \in 1..daemons, data \in StdoutChunks : StdoutData(d, data)
  \/ Tick

SpecReadiness == Init /\ [][NextReadiness]_vars

\* the start path over any config file: start and the findJavaHome callback
NextConfig ==
  \/ Start
  \/ Spawn

SpecConfig == InitConfig /\ [][NextConfig]_vars

(* ------------------------ reindex: the requests ----------------------- *)

\* One record per setupIndex call.  steps are the requests and timers issued,
\* in order; replies[k] is the answer to steps[k]; cb are the arguments the
\* callback was called with, in order; put is what became of the PUT.

\* callback(err)
callback(r, err) == [r EXCEPT !.pc = "done", !.cb = Append(@, err)]

\* indexExists(callback): client.indices.exists({index: INDEX_NAME}, callback)
indexExists(r) == [r EXCEPT !.pc = "exists", !.steps = Append(@, "exists")]

\* deleteIndex(callback): client.indices.delete({index: INDEX_NAME}, callback)
deleteIndex(r) == [r EXCEPT !.pc = "delete", !.steps = Append(@, "delete")]

\* triggerRiver(callback): request({uri: RIVER_URL, method: "DELETE"}, ...)
triggerRiver(r) ==
  [r EXCEPT !.pc = "riverDelete", !.steps = Append(@, "riverDelete")]

\* setTimeout(function () { createRiver(callback); }, 2000)
setTimeout(r, delay) ==
  [r EXCEPT !.pc = "timer", !.steps = Append(@, "timer"), !.delay = delay]

\* createRiver(callback): request({uri: RIVER_URL + "/_meta", method: "PUT"})
createRiver(r) == [r EXCEPT !.pc = "put", !.steps = Append(@, "put")]

\* a handler without its return: the error is reported and the run goes on
onIndexExistsNoReturn(r, err, exists) ==
  LET told == IF err # "null" THEN callback(r, err) ELSE r
  IN IF exists THEN deleteIndex(told) ELSE triggerRiver(told)

\* a handler that leaves an existing index in place
onIndexExistsNoDelete(r, err, exists) ==
  IF err # "null" THEN callback(r, err) ELSE triggerRiver(r)

\* a handler that starts on the river while the index deletion is still out
onIndexExistsNoWait(r, err, exists) ==
  IF err # "null" THEN callback(r, err)
  ELSE IF exists THEN triggerRiver(deleteIndex(r))
  ELSE triggerRiver(r)

\* the callback setupIndex gives to indexExists: function (err, exists)
onIndexExists(r, err, exists) ==
  IF err # "null" THEN callback(r, err)
  ELSE IF exists THEN deleteIndex(r)
  ELSE triggerRiver(r)

\* a handler without its return: the error is reported and the run goes on
onDeleteIndexNoReturn(r, err) ==
  triggerRiver(IF err # "null" THEN callback(r, err) ELSE r)

\* the callback setupIndex gives to deleteIndex: function (err)
onDeleteIndex(r, err) ==
  IF err # "null" THEN callback(r, err) ELSE triggerRiver(r)

\* a handler that also gives up when the river was not there to delete
onRiverDeleteStrict(r, err, status) ==
  IF err # "null" THEN callback(r, err)
  ELSE IF status # "200" THEN callback(r, status)
  ELSE setTimeout(r, SETTLE_DELAY)

\* a handler that creates the river at once, without the timer
onRiverDeleteNoWait(r, err, status) ==
  IF err # "null" THEN callback(r, err) ELSE createRiver(r)

\* the callback triggerRiver gives to the DELETE request: function (err).
\* request hands it (err, response, body); err is set only when no response
\* came, and the response's status is not looked at.
onRiverDelete(r, err, status) ==
  IF err # "null" THEN callback(r, err) ELSE setTimeout(r, SETTLE_DELAY)

\* a handler that sends the PUT again when it got no response
onRiverPutRetry(r, err, status) ==
  IF err # "null" THEN createRiver(r) ELSE callback(r, err)

\* the callback createRiver gives to the PUT request:
\* function (err, response, body) { callback(err); }
onRiverPut(r, err, status) == callback(r, err)

\* the err a request callback gets for an answer: set only when no response came
RequestErr(reply) ==
  IF reply \in {"RiverDeleteError", "RiverPutError"} THEN reply ELSE "null"

(* ----------------------- reindex: the operations ---------------------- *)

InFlight(r) == r.pc # "done"

NewCall ==
  [pc |-> "new", steps |-> <<>>, replies |-> <<>>, cb |-> <<>>, delay |-> 0,
   put |-> "none", exists |-> "unknown",
   alone |-> \A j \in DOMAIN inv : ~InFlight(inv[j]),
   startIndex |-> indexPresent, startRiver |-> riverPresent,
   endIndex |-> indexPresent, endRiver |-> riverPresent, endRiverBy |-> 0]

\* what the caller can see of the remote system when a call has ended
Ended(r, idx, riv, by) ==
  IF r.pc = "done"
  THEN [r EXCEPT !.endIndex = idx, !.endRiver = riv, !.endRiverBy = by]
  ELSE r

\* setupIndex(callback).  With client undefined indexExists throws a TypeError
\* at client.indices and nothing is issued.
SetupIndex ==
  /\ ~crashed
  /\ Len(inv) + setupThrown < MaxSetups
  /\ IF client = 0
     THEN /\ setupThrown' = setupThrown + 1
          /\ inv' = inv
     ELSE /\ setupThrown' = setupThrown
          /\ inv' = Append([j \in DOMAIN inv |->
                              IF InFlight(inv[j])
                              THEN [inv[j] EXCEPT !.alone = FALSE] ELSE inv[j]],
                           indexExists(NewCall))
  /\ UNCHANGED <<indexPresent, riverPresent, riverCreatedBy>>
  /\ UNCHANGED supervisorVars
  /\ UNCHANGED <<configVars, searchVars>>

\* the existence check answers
IndexExistsReply(i, reply) ==
  /\ ~crashed
  /\ inv[i].pc = "exists"
  /\ LET err == IF reply = "ok" THEN "null" ELSE reply
         r == [inv[i] EXCEPT !.replies = Append(@, reply),
                             !.exists = IF reply # "ok" THEN "unknown"
                                        ELSE IF indexPresent THEN "yes" ELSE "no"]
     IN inv' = [inv EXCEPT ![i] = Ended(onIndexExists(r, err, indexPresent),
                                        indexPresent, riverPresent, riverCreatedBy)]
  /\ UNCHANGED <<indexPresent, riverPresent, riverCreatedBy, setupThrown>>
  /\ UNCHANGED supervisorVars
  /\ UNCHANGED <<configVars, searchVars>>

\* the index deletion answers: an error when the request failed or when the
\* index is not there any more
DeleteIndexReply(i, failed) ==
  /\ ~crashed
  /\ inv[i].pc = "delete"
  /\ LET reply == IF failed THEN "DeleteError"
                  ELSE IF indexPresent THEN "ok" ELSE "IndexMissing"
         err == IF reply = "ok" THEN "null" ELSE reply
         r == [inv[i] EXCEPT !.replies = Append(@, reply)]
         idx == IF reply = "ok" THEN FALSE ELSE indexPresent
     IN /\ indexPresent' = idx
        /\ inv' = [inv EXCEPT ![i] = Ended(onDeleteIndex(r, err),
                                           idx, riverPresent, riverCreatedBy)]
  /\ UNCHANGED <<riverPresent, riverCreatedBy, setupThrown>>
  /\ UNCHANGED supervisorVars
  /\ UNCHANGED <<configVars, searchVars>>

\* the river DELETE answers: no response at all, or a response whose status
\* says whether there was a river to delete
RiverDeleteReply(i, failed) ==
  /\ ~crashed
  /\ inv[i].pc = "riverDelete"
  /\ LET reply == IF failed THEN "RiverDeleteError"
                  ELSE IF riverPresent THEN "200" ELSE "404"
         r == [inv[i] EXCEPT !.replies = Append(@, reply)]
         riv == IF failed THEN riverPresent ELSE FALSE
         by == IF failed THEN riverCreatedBy ELSE 0
     IN /\ riverPresent' = riv
        /\ riverCreatedBy' = by
        /\ inv' = [inv EXCEPT ![i] = Ended(onRiverDelete(r, RequestErr(reply), reply),
                                           indexPresent, riv, by)]
  /\ UNCHANGED <<indexPresent, setupThrown>>
  /\ UNCHANGED supervisorVars
  /\ UNCHANGED <<configVars, searchVars>>

\* the settle timer fires
TimerFire(i) ==
  /\ ~crashed
  /\ inv[i].pc = "timer"
  /\ inv' = [inv EXCEPT ![i] = createRiver([inv[i] EXCEPT !.replies = Append(@, "fired")])]
  /\ UNCHANGED <<indexPresent, riverPresent, riverCreatedBy, setupThrown>>
  /\ UNCHANGED supervisorVars
  /\ UNCHANGED <<configVars, searchVars>>

\* the river PUT answers: no response at all, or the remote system created the
\* river ("201"), or it refused to ("500")
RiverPutReply(i, reply) ==
  /\ ~crashed
  /\ inv[i].pc = "put"
  /\ LET r == [inv[i] EXCEPT !.replies = Append(@, reply),
                             !.put = IF reply = "201" THEN "created" ELSE "failed"]
         riv == IF reply = "201" THEN TRUE ELSE riverPresent
         by == IF reply = "201" THEN i ELSE riverCreatedBy
     IN /\ riverPresent' = riv
        /\ riverCreatedBy' = by
        /\ inv' = [inv EXCEPT ![i] = Ended(onRiverPut(r, RequestErr(reply), reply),
                                           indexPresent, riv, by)]
  /\ UNCHANGED <<indexPresent, setupThrown>>
  /\ UNCHANGED supervisorVars
  /\ UNCHANGED <<configVars, searchVars>>

NextReindex ==
  \/ Initialize
  \/ SetupIndex
  \/ \E i \in DOMAIN inv, reply \in {"ok", "ExistsError"} : IndexExistsReply(i, reply)
  \/ \E i \in DOMAIN inv, failed \in BOOLEAN : DeleteIndexReply(i, failed)
  \/ \E i \in DOMAIN inv, failed \in BOOLEAN : RiverDeleteReply(i, failed)
  \/ \E i \in DOMAIN inv : TimerFire(i)
  \/ \E i \in DOMAIN inv, reply \in {"201", "500", "RiverPutError"} : RiverPutReply(i, reply)

SpecReindex == Init /\ [][NextReindex]_vars

\* every request is answered in the end and every timer fires
ReindexFairness ==
  \A i \in 1..MaxSetups :
    /\ WF_vars(i \in DOMAIN inv
                 /\ \E reply \in {"ok", "ExistsError"} : IndexExistsReply(i, reply))
    /\ WF_vars(i \in DOMAIN inv /\ \E failed \in BOOLEAN : DeleteIndexReply(i, failed))
    /\ WF_vars(i \in DOMAIN inv /\ \E failed \in BOOLEAN : RiverDeleteReply(i, failed))
    /\ WF_vars(i \in DOMAIN inv /\ TimerFire(i))
    /\ WF_vars(i \in DOMAIN inv
                 /\ \E reply \in {"201", "500", "RiverPutError"} : RiverPutReply(i, reply))

SpecReindexFair == SpecReindex /\ ReindexFairness



(* ------------------------------- searches ----------------------------- *)

\* the object search extends options with
SearchParams(query) == [index |-> INDEX_NAME, type |-> "torrent", q |-> query]

\* the object fullSearch extends options with
FullSearchParams(query) ==
  [index |-> INDEX_NAME, type |-> "torrent",
   body |-> [min_score |-> "0.5", fields |-> <<"title^4", "nfo">>,
             query |-> query, field |-> "seeders", modifier |-> "ln2p",
             factor |-> "0.5", boost_mode |-> "multiply", max_boost |-> "2.5"]]

\* client.search(extend(options, params), callback).  With client undefined
\* client.search throws a TypeError before its arguments are evaluated.
\* extend sets the keys on options itself and returns it: the request sent
\* and the caller's object after the call are one object.
clientSearch(handle, op, query, opts, params) ==
  IF handle = 0
  THEN [op |-> op, q |-> query, before |-> opts, sent |-> EmptyMap,
        after |-> opts, thrown |-> TRUE]
  ELSE [op |-> op, q |-> query, before |-> opts, sent |-> extend(opts, params),
        after |-> extend(opts, params), thrown |-> FALSE]

\* the caller builds a new options object
NewOptions(o) ==
  /\ ~crashed
  /\ Len(requests) < MaxSearches
  /\ options # o
  /\ options' = o
  /\ UNCHANGED requests
  /\ UNCHANGED <<supervisorVars, reindexVars, configVars>>

\* search(query, options, callback)
Search(query) ==
  /\ ~crashed
  /\ Len(requests) < MaxSearches
  /\ LET call == clientSearch(client, "search", query, options, SearchParams(query))
     IN /\ requests' = Append(requests, call)
        /\ options' = call.after
  /\ UNCHANGED <<supervisorVars, reindexVars, configVars>>

\* fullSearch(query, options, callback)
FullSearch(query) ==
  /\ ~crashed
  /\ Len(requests) < MaxSearches
  /\ LET call == clientSearch(client, "fullSearch", query, options,
                              FullSearchParams(query))
     IN /\ requests' = Append(requests, call)
        /\ options' = call.after
  /\ UNCHANGED <<supervisorVars, reindexVars, configVars>>

NextSearch ==
  \/ Initialize
  \/ \E o \in OptionObjects : NewOptions(o)
  \/ \E query \in Queries : Search(query)
  \/ \E query \in Queries : FullSearch(query)

SpecSearch == Init /\ [][NextSearch]_vars

Next == NextSupervisor \/ NextReindex \/ NextSearch

Spec == Init /\ [][Next]_vars

(* ------------------------------ properties ---------------------------- *)

\* the runs of the start callback given to the start() that spawned daemon d
ReadyRuns(d) == {k \in DOMAIN readyLog : readyLog[k].proc = d}

\* every answer of the call was a success (a 404 to the river DELETE says the
\* river was absent, which is no failure of the call)
Clean(r) ==
  \A k \in DOMAIN r.replies : r.replies[k] \in {"ok", "200", "404", "fired", "201"}

\* C1: the start callback of a daemon runs at most once, whatever stdout
\* chunks the daemon writes.
C1_OnReadyAtMostOnce ==
  \A d \in 1..daemons : Cardinality(ReadyRuns(d)) <= 1

\* C2: when the existence check answers with an error, the callback gets that
\* error and the call issues nothing else.
C2_ExistsErrorStops ==
  \A i \in DOMAIN inv :
    (Len(inv[i].replies) >= 1 /\ inv[i].replies[1] # "ok")
      => /\ inv[i].steps = <<"exists">>
         /\ inv[i].cb = <<inv[i].replies[1]>>
         /\ inv[i].pc = "done"

C2_Witness ==
  \E i \in DOMAIN inv :
    /\ inv[i].replies = <<"ExistsError">>
    /\ inv[i].cb = <<"ExistsError">>

\* C3: when the index exists and its deletion answers with an error, the
\* callback gets that error and neither the river DELETE, the timer nor the
\* PUT is issued.
C3_DeleteErrorStops ==
  \A i \in DOMAIN inv :
    (Len(inv[i].replies) >= 2 /\ inv[i].steps[2] = "delete"
       /\ inv[i].replies[2] # "ok")
      => /\ inv[i].steps = <<"exists", "delete">>
         /\ inv[i].cb = <<inv[i].replies[2]>>
         /\ inv[i].pc = "done"

C3_Witness ==
  \E i \in DOMAIN inv :
    /\ inv[i].replies = <<"ok", "DeleteError">>
    /\ inv[i].cb = <<"DeleteError">>

\* C4 as claimed: whatever error the river DELETE comes back with, the
\* callback does not get it and the settle timer is started.
C4_RiverDeleteErrorIgnored ==
  \A i \in DOMAIN inv : \A k \in DOMAIN inv[i].replies :
    (inv[i].steps[k] = "riverDelete" /\ inv[i].replies[k] \in {"404", "RiverDeleteError"})
      => /\ Len(inv[i].steps) > k
         /\ inv[i].steps[k + 1] = "timer"
         /\ \A n \in DOMAIN inv[i].cb : inv[i].cb[n] # inv[i].replies[k]

\* C4 amended: a river DELETE the remote system answers with "not found" is a
\* success (the timer is started, then the PUT is issued, and the callback
\* gets nothing from the DELETE); a river DELETE that gets no response gives
\* its error to the callback and the call issues nothing else.
C4_RiverNotFoundIgnored ==
  \A i \in DOMAIN inv : \A k \in DOMAIN inv[i].replies :
    /\ (inv[i].steps[k] = "riverDelete" /\ inv[i].replies[k] = "404")
         => /\ Len(inv[i].steps) > k
            /\ inv[i].steps[k + 1] = "timer"
            /\ inv[i].delay = SETTLE_DELAY
            /\ Len(inv[i].replies) > k => inv[i].steps[k + 2] = "put"
            /\ inv[i].pc \in {"timer", "put"} => inv[i].cb = <<>>
            /\ \A n \in DOMAIN inv[i].cb :
                 inv[i].cb[n] \notin {"404", "RiverDeleteError"}
    /\ (inv[i].steps[k] = "riverDelete" /\ inv[i].replies[k] = "RiverDeleteError")
         => /\ Len(inv[i].steps) = k
            /\ inv[i].cb = <<"RiverDeleteError">>
            /\ inv[i].pc = "done"

C4_Witness ==
  \E i \in DOMAIN inv : \E k \in DOMAIN inv[i].replies :
    /\ inv[i].steps[k] = "riverDelete"
    /\ inv[i].replies[k] = "404"
    /\ inv[i].pc = "done"
    /\ inv[i].put = "created"
    /\ inv[i].cb = <<"null">>

\* C5: two setupIndex calls one after the other, every remote call of both
\* succeeding: both end with the index absent and the river created by that
\* very call, and the second call's callback gets no error.
C5_SetupIndexIdempotent ==
  \A i \in DOMAIN inv :
    (/\ i + 1 \in DOMAIN inv
     /\ inv[i].pc = "done" /\ inv[i + 1].pc = "done"
     /\ inv[i].alone /\ inv[i + 1].alone
     /\ Clean(inv[i]) /\ Clean(inv[i + 1]))
      => /\ ~inv[i].endIndex /\ inv[i].endRiver /\ inv[i].endRiverBy = i
         /\ ~inv[i + 1].endIndex /\ inv[i + 1].endRiver /\ inv[i + 1].endRiverBy = i + 1
         /\ inv[i + 1].endIndex = inv[i].endIndex
         /\ inv[i + 1].endRiver = inv[i].endRiver
         /\ inv[i + 1].cb = <<"null">>

C5_Witness ==
  \E i \in DOMAIN inv :
    /\ i + 1 \in DOMAIN inv
    /\ inv[i].pc = "done" /\ inv[i + 1].pc = "done"
    /\ inv[i].alone /\ inv[i + 1].alone
    /\ Clean(inv[i]) /\ Clean(inv[i + 1])
    /\ inv[i].startIndex /\ inv[i].startRiver
    /\ inv[i].steps = <<"exists", "delete", "riverDelete", "timer", "put">>
    /\ inv[i + 1].steps = <<"exists", "riverDelete", "timer", "put">>

\* C6: a call whose PUT did not create the river ends with an error given to
\* the callback; the callback gets no error only when the river was created.
C6_PutFailureReported ==
  \A i \in DOMAIN inv :
    (inv[i].pc = "done" /\ inv[i].put = "failed")
      => inv[i].cb[Len(inv[i].cb)] # "null"

\* C7: shutdown with no client built throws a sequencing error of its own and
\* reads nothing from the undefined handle.
C7_ShutdownBeforeInitializeFailsFast ==
  \A k \in DOMAIN shutdownCalls :
    shutdownCalls[k].client = 0
      => /\ shutdownCalls[k].thrown = "SequencingError"
         /\ ~shutdownCalls[k].readUndefined

\* C8: every stderr chunk is one "error" event carrying it, and none of them
\* ends the supervising process, with or without an "error" listener.
C8_StderrIsNonFatalEvent ==
  /\ ~crashed
  /\ errorEvents = stderrLog

\* C9: the stdout handler builds the client and queues the start callback for
\* a chunk exactly when that chunk holds the whole marker; for any other chunk
\* it changes nothing of the client, the tick queue or the callback's runs.
C9_ReadinessIffFullMarker ==
  [][stdoutCount' # stdoutCount
       => /\ stdoutLast'.whole
               <=> (/\ Len(tickQueue') = Len(tickQueue) + 1
                    /\ clientsCreated' = clientsCreated + 1
                    /\ client' = clientsCreated')
          /\ ~stdoutLast'.whole
               => UNCHANGED <<client, clientsCreated, tickQueue, readyLog>>]_vars

\* the marker came split over two chunks of one daemon and nothing fired
C9_Witness ==
  /\ splitMarker
  /\ stdoutCount = 2
  /\ clientsCreated = 0
  /\ client = 0
  /\ tickQueue = <<>>
  /\ readyLog = <<>>

\* C10: the start callback runs with the client built, and never inside the
\* stdout handler: it waits in the tick queue, and the client is there already
\* while it waits.
C10_OnReadyDeferredAfterInitialize ==
  /\ \A k \in DOMAIN readyLog : readyLog[k].client # 0 /\ ~readyLog[k].inHandler
  /\ tickQueue # <<>> => client # 0
  /\ Len(readyLog) + Len(tickQueue) <= stdoutCount

C10_Witness ==
  \E k \in DOMAIN readyLog :
    /\ readyLog[k].client # 0
    /\ ~readyLog[k].inHandler
    /\ stdoutLast.whole

\* the keys prepareConfig is to set under each of its three top-level keys
Managed == {"cluster", "node", "network"}

SetKeys(k) ==
  CASE k = "cluster" -> {"name"}
    [] k = "node" -> {"name", "master"}
    [] k = "network" -> {"bind_host", "publish_host"}

\* the five keys hold the new values in the object m written for cfg
FiveKeysSet(m, cfg) ==
  /\ Managed \subseteq DOMAIN m
  /\ m["cluster"]["name"] = CLUSTER_NAME
  /\ m["node"]["name"] = NODE_NAME[1]
  /\ m["node"]["master"] = cfg.search.master
  /\ m["network"]["bind_host"] = cfg.search.host
  /\ m["network"]["publish_host"] = m["network"]["bind_host"]

\* C11 as claimed: the file written keeps every key of the file read that is
\* not one of the five, at the top level and under cluster, node and network,
\* and sets the five.
C11_EveryOtherKeyKept ==
  \A n \in DOMAIN startLog :
    startLog[n].wrote =>
      LET b == startLog[n].before.value
          a == startLog[n].after.value
      IN /\ FiveKeysSet(a, startLog[n].cfg)
         /\ \A k \in DOMAIN b :
              /\ k \in DOMAIN a
              /\ IF k \in Managed
                 THEN \A sub \in DOMAIN b[k] \ SetKeys(k) :
                        sub \in DOMAIN a[k] /\ a[k][sub] = b[k][sub]
                 ELSE a[k] = b[k]

\* C12: a daemon is spawned only by a findJavaHome callback that has written
\* the merged configuration first; over a file that is no JSON the callback
\* throws, spawns nothing and leaves the file as it was.
C12_SpawnAfterConfigWritten ==
  /\ \A n \in DOMAIN startLog :
       /\ startLog[n].spawned
            => /\ startLog[n].wrote
               /\ startLog[n].before.kind # "garbage"
               /\ startLog[n].after.kind = "json"
               /\ FiveKeysSet(startLog[n].after.value, startLog[n].cfg)
       /\ startLog[n].before.kind = "garbage"
            => /\ ~startLog[n].spawned
               /\ ~startLog[n].wrote
               /\ startLog[n].after = startLog[n].before
               /\ startLog[n].thrown = "SyntaxError"
               /\ crashed
               /\ configFile = GarbageFile
  /\ daemons = Cardinality({n \in DOMAIN startLog : startLog[n].spawned})
  /\ daemons > 0 => configFile.kind = "json"

C12_Witness ==
  \E n \in DOMAIN startLog :
    /\ startLog[n].before = GarbageFile
    /\ startLog[n].thrown = "SyntaxError"
    /\ daemons = 0
    /\ configFile = GarbageFile
    /\ crashed

\* C13: every request search sends is for index "torrents" and type
\* "torrent", has its own query string as q, and carries every other key of
\* the options it was given with that key's value.
C13_SearchRequest ==
  \A n \in DOMAIN requests :
    (requests[n].op = "search" /\ ~requests[n].thrown)
      => /\ requests[n].sent["index"] = "torrents"
         /\ requests[n].sent["type"] = "torrent"
         /\ requests[n].sent["q"] = requests[n].q
         /\ \A k \in DOMAIN requests[n].before \ {"index", "type", "q"} :
              /\ k \in DOMAIN requests[n].sent
              /\ requests[n].sent[k] = requests[n].before[k]
         /\ DOMAIN requests[n].sent
              = DOMAIN requests[n].before \cup {"index", "type", "q"}

C13_Witness ==
  \E n \in DOMAIN requests :
    /\ requests[n].op = "search"
    /\ requests[n].q = "pirate bay"
    /\ requests[n].before = [size |-> "10"]
    /\ requests[n].sent =
         [size |-> "10", index |-> "torrents", type |-> "torrent", q |-> "pirate bay"]

\* C19: a search or fullSearch call leaves the options object it was given
\* as it was.
C19_OptionsUnchanged ==
  \A n \in DOMAIN requests : requests[n].after = requests[n].before

\* the steps of a call that found the index, and of one that did not
LongRun == <<"exists", "delete", "riverDelete", "timer", "put">>

ShortRun == <<"exists", "riverDelete", "timer", "put">>

IsPrefix(a, b) == Len(a) <= Len(b) /\ a = SubSeq(b, 1, Len(a))

\* C14: the steps of a call are issued in the order existence check, index
\* delete (only when the check said the index exists), river DELETE, timer,
\* PUT, each after the answer to the one before: a call in flight has exactly
\* one step out, a finished one none.
C14_StepsInOrderOneAtATime ==
  \A i \in DOMAIN inv :
    /\ IsPrefix(inv[i].steps, LongRun) \/ IsPrefix(inv[i].steps, ShortRun)
    /\ Len(inv[i].steps) >= 2
         => /\ inv[i].replies[1] = "ok"
            /\ inv[i].steps[2] = "delete" <=> inv[i].exists = "yes"
            /\ inv[i].steps[2] = "riverDelete" <=> inv[i].exists = "no"
    /\ Len(inv[i].steps) = Len(inv[i].replies) + (IF inv[i].pc = "done" THEN 0 ELSE 1)
    /\ inv[i].pc # "done" => inv[i].steps[Len(inv[i].steps)] = inv[i].pc

C14_Witness ==
  \E i \in DOMAIN inv :
    /\ inv[i].steps = LongRun
    /\ inv[i].replies = <<"ok", "ok", "200", "fired", "201">>
    /\ inv[i].pc = "done"

\* C15: a call issues the PUT at most once, and only when the river DELETE
\* was answered and the timer started then has fired; the answer to the PUT
\* ends the call, and a call that has ended never issues anything again.
C15_OnePutAfterTimer ==
  /\ [](\A i \in DOMAIN inv :
          /\ Cardinality({k \in DOMAIN inv[i].steps : inv[i].steps[k] = "put"}) <= 1
          /\ \A k \in DOMAIN inv[i].steps :
               inv[i].steps[k] = "put"
                 => /\ k > 2
                    /\ inv[i].steps[k - 1] = "timer"
                    /\ inv[i].replies[k - 1] = "fired"
                    /\ inv[i].delay = SETTLE_DELAY
                    /\ inv[i].steps[k - 2] = "riverDelete"
                    /\ inv[i].replies[k - 2] \in {"200", "404"}
                    /\ Len(inv[i].replies) >= k
                         => /\ inv[i].pc = "done"
                            /\ Len(inv[i].steps) = k
                            /\ Len(inv[i].cb) = 1)
  /\ [][\A i \in DOMAIN inv : inv[i].pc = "done" => inv'[i] = inv[i]]_vars

C15_Witness ==
  \E i \in DOMAIN inv :
    /\ inv[i].pc = "done"
    /\ inv[i].steps = ShortRun
    /\ inv[i].replies = <<"ok", "404", "fired", "RiverPutError">>
    /\ inv[i].cb = <<"RiverPutError">>

\* the index deletion of the call succeeded and its river step then failed
RiverStepFailed(r) ==
  /\ Len(r.replies) >= 3
  /\ r.steps[2] = "delete"
  /\ r.replies[2] = "ok"
  /\ r.replies[Len(r.replies)] \in {"RiverDeleteError", "RiverPutError", "500"}

\* C16 as claimed: a call that deleted the index and then failed in its river
\* step leaves no index and no river.
C16_NoIndexNoRiverAfterFailure ==
  \A i \in DOMAIN inv :
    (inv[i].pc = "done" /\ inv[i].alone /\ RiverStepFailed(inv[i]))
      => ~inv[i].endIndex /\ ~inv[i].endRiver

\* C16 amended: such a call leaves no index; it leaves no river when the PUT
\* failed, and the river it found when the river DELETE got no response.  It
\* issues no request beyond its normal steps, and the next call, when all its
\* remote calls succeed, ends with the river created by that call.
C16_FailureLeavesNoIndex ==
  \A i \in DOMAIN inv :
    (inv[i].pc = "done" /\ inv[i].alone /\ RiverStepFailed(inv[i]))
      => /\ ~inv[i].endIndex
         /\ inv[i].replies[3] = "RiverDeleteError"
              => inv[i].endRiver = inv[i].startRiver
         /\ inv[i].replies[3] # "RiverDeleteError" => ~inv[i].endRiver
         /\ IsPrefix(inv[i].steps, LongRun)
         /\ (/\ i + 1 \in DOMAIN inv
             /\ inv[i + 1].pc = "done" /\ inv[i + 1].alone /\ Clean(inv[i + 1]))
              => /\ inv[i + 1].endRiver
                 /\ inv[i + 1].endRiverBy = i + 1
                 /\ ~inv[i + 1].endIndex
                 /\ inv[i + 1].cb = <<"null">>

C16_Witness ==
  \E i \in DOMAIN inv :
    /\ inv[i].pc = "done" /\ inv[i].alone
    /\ inv[i].replies = <<"ok", "ok", "200", "fired", "RiverPutError">>
    /\ ~inv[i].endIndex /\ ~inv[i].endRiver
    /\ i + 1 \in DOMAIN inv
    /\ inv[i + 1].pc = "done" /\ inv[i + 1].alone /\ Clean(inv[i + 1])
    /\ inv[i + 1].endRiverBy = i + 1

\* C17: the stdout handlers build at most one client per daemon, so a client
\* built by a handler is never replaced by a handler.
C17_OneClientPerDaemon ==
  clientsCreated - initCalls <= daemons

\* the answer of the first step of the call that failed, or "null"
FirstFailure(r) ==
  LET bad == {k \in DOMAIN r.replies :
                r.replies[k] \notin {"ok", "200", "404", "fired", "201"}}
  IN IF bad = {} THEN "null"
     ELSE r.replies[CHOOSE k \in bad : \A j \in bad : k <= j]

\* C18: a call that has ended has called its callback exactly once, with the
\* error of its first failed step, or with no error when no step failed.
C18_CallbackOnceWithFirstError ==
  \A i \in DOMAIN inv :
    /\ Len(inv[i].cb) <= 1
    /\ inv[i].pc = "done"
         => /\ Len(inv[i].cb) = 1
            /\ inv[i].cb[1] = FirstFailure(inv[i])

\* what does hold of C18: the callback is called exactly once, when the call
\* ends, and with answers and timers never withheld every call ends.
CallbackExactlyOnce ==
  \A i \in DOMAIN inv :
    Len(inv[i].cb) = (IF inv[i].pc = "done" THEN 1 ELSE 0)

EveryCallEnds ==
  \A i \in 1..MaxSetups :
    (i \in DOMAIN inv) ~> (i \in DOMAIN inv /\ inv[i].pc = "done")

====
